---- MODULE Spec2Model ----
(***************************************************************************)
(* Model of otp_bot.py: the sqlite stores (accounts, approved_users,       *)
(* user_email_access), the access checks, the admin command handlers, the  *)
(* /getcode handler and the IMAP / POP3 retrieval.                         *)
(*                                                                         *)
(* A chat message is the token sequence message.text.split() produces; a   *)
(* token is a sequence of one-character strings, so that int() and         *)
(* str.lower() are computed character by character.                        *)
(***************************************************************************)
EXTENDS Integers, Sequences, FiniteSets, TLC

VARIABLES
    accounts,            \* table accounts
    approved_users,      \* table approved_users
    user_email_access,   \* table user_email_access
    clock,               \* int(time.time())
    ticks,               \* how often the clock advanced
    max_emails_check,    \* MAX_EMAILS_CHECK of the environment
    inbox,               \* the mail server: the messages of every mailbox
    last,                \* what the last handler did
    granted,             \* history: when and for how long each pair was last granted
    blocked              \* the /getcode requests whose handler waits in a mail call

vars == <<accounts, approved_users, user_email_access, clock, ticks,
          max_emails_check, inbox, last, granted, blocked>>

stores == <<accounts, approved_users, user_email_access>>

(*************************** bounds of the model ***************************)
\* number of clock advances explored
MaxTicks == 3
\* number of messages a mailbox can hold
MaxInbox == 3
\* largest value of MAX_EMAILS_CHECK explored (0..MaxLimit)
MaxLimit == 2

(**************************** program constants ****************************)
ADMIN_ID == 1
DAY == 86400
MaxCodes == 5
CodeLen == 6
DefaultMaxEmailsCheck == 20

\* chat identities that send messages: the admin and one other user
Users == {ADMIN_ID, 2}

(******************************** tokens ***********************************)
DigitChars == <<"0", "1", "2", "3", "4", "5", "6", "7", "8", "9">>

IsDigit(c) == \E i \in 1..10 : DigitChars[i] = c

DigitVal(c) == (CHOOSE i \in 1..10 : DigitChars[i] = c) - 1

RECURSIVE DigitsVal(_)
DigitsVal(s) ==
    IF s = <<>> THEN 0
    ELSE 10 * DigitsVal(SubSeq(s, 1, Len(s) - 1)) + DigitVal(s[Len(s)])

AllDigits(s) == Len(s) >= 1 /\ \A i \in 1..Len(s) : IsDigit(s[i])

HasSign(tok) == Len(tok) >= 1 /\ tok[1] \in {"-", "+"}

\* int(tok) raises ValueError unless tok is an optionally signed digit string
IntOk(tok) == AllDigits(IF HasSign(tok) THEN Tail(tok) ELSE tok)

\* int(tok), for a token int() accepts
IntOf(tok) ==
    IF HasSign(tok)
    THEN (IF tok[1] = "-" THEN 0 - DigitsVal(Tail(tok)) ELSE DigitsVal(Tail(tok)))
    ELSE DigitsVal(tok)

UpperChars == <<"I", "M", "A", "P", "O", "C", "D", "E", "T">>
LowerChars == <<"i", "m", "a", "p", "o", "c", "d", "e", "t">>

LowerChar(c) ==
    IF \E i \in 1..Len(UpperChars) : UpperChars[i] = c
    THEN LowerChars[CHOOSE i \in 1..Len(UpperChars) : UpperChars[i] = c]
    ELSE c

\* str.lower()
Lower(tok) == [i \in 1..Len(tok) |-> LowerChar(tok[i])]

(******************************* the stores ********************************)
\* accounts: email -> row (PRIMARY KEY email); absent emails are not in DOMAIN
Account(email, password, protocol, server, port) ==
    [email |-> email, password |-> password, protocol |-> protocol,
     server |-> server, port |-> port]

\* a variant that keeps the stored password when the address has a row
upsert_account_merge(accs, acc) ==
    [e \in (DOMAIN accs) \cup {acc.email} |->
        IF e = acc.email
        THEN [password |-> IF e \in DOMAIN accs THEN accs[e].password
                           ELSE acc.password,
              protocol |-> acc.protocol, server |-> acc.server, port |-> acc.port]
        ELSE accs[e]]

upsert_account(accs, acc) ==
    [e \in (DOMAIN accs) \cup {acc.email} |->
        IF e = acc.email
        THEN [password |-> acc.password, protocol |-> acc.protocol,
              server |-> acc.server, port |-> acc.port]
        ELSE accs[e]]

\* get_account: the row as an Account, or NoAccount (None)
NoAccount == [email |-> <<>>, password |-> <<>>, protocol |-> <<>>,
              server |-> <<>>, port |-> 0]

get_account(accs, email_addr) ==
    IF email_addr \in DOMAIN accs
    THEN Account(email_addr, accs[email_addr].password, accs[email_addr].protocol,
                 accs[email_addr].server, accs[email_addr].port)
    ELSE NoAccount

\* a variant that takes every identified sender for the admin
is_admin_anyone(uid) == uid # 0

is_admin(uid) == uid = ADMIN_ID

\* a variant that forgets the approval table
is_approved_open(approved, uid) == TRUE

is_approved(approved, uid) ==
    IF is_admin(uid) THEN TRUE ELSE uid \in approved

\* a variant that withdraws the approval of a user who has one
approve_user_toggle(approved, uid) ==
    IF uid \in approved THEN approved \ {uid} ELSE approved \cup {uid}

\* INSERT OR IGNORE INTO approved_users
approve_user(approved, uid) == approved \cup {uid}

\* a variant that takes a duration below one day for one day
grant_email_access_min_one_day(access, now, user_id, email_addr, days) ==
    LET expires_at == now + (IF days < 1 THEN 1 ELSE days) * DAY
    IN  [k \in (DOMAIN access) \cup {<<user_id, email_addr>>} |->
            IF k = <<user_id, email_addr>> THEN expires_at ELSE access[k]]

\* a variant that adds the new duration onto a row that has not expired
grant_email_access_accumulate(access, now, user_id, email_addr, days) ==
    LET key == <<user_id, email_addr>>
        base == IF key \in DOMAIN access /\ access[key] > now
                THEN access[key] ELSE now
    IN  [k \in (DOMAIN access) \cup {key} |->
            IF k = key THEN base + days * DAY ELSE access[k]]

\* INSERT OR REPLACE INTO user_email_access, PRIMARY KEY (user_id, email)
grant_email_access(access, now, user_id, email_addr, days) ==
    LET expires_at == now + days * DAY
    IN  [k \in (DOMAIN access) \cup {<<user_id, email_addr>>} |->
            IF k = <<user_id, email_addr>> THEN expires_at ELSE access[k]]

\* a variant that accepts a grant of the user for any mailbox
check_email_access_any_mailbox(access, now, user_id, email_addr) ==
    IF is_admin(user_id) THEN TRUE
    ELSE \E k \in DOMAIN access : k[1] = user_id /\ now < access[k]

\* a variant that counts the instant expires_at as still valid
check_email_access_inclusive(access, now, user_id, email_addr) ==
    IF is_admin(user_id) THEN TRUE
    ELSE /\ <<user_id, email_addr>> \in DOMAIN access
         /\ now <= access[<<user_id, email_addr>>]

\* a variant without the admin bypass
check_email_access_no_bypass(access, now, user_id, email_addr) ==
    /\ <<user_id, email_addr>> \in DOMAIN access
    /\ now < access[<<user_id, email_addr>>]

check_email_access(access, now, user_id, email_addr) ==
    IF is_admin(user_id) THEN TRUE
    ELSE /\ <<user_id, email_addr>> \in DOMAIN access
         /\ now < access[<<user_id, email_addr>>]

(***************************** code extraction *****************************)
\* \w of the regex engine, over the characters the model's texts use
IsWordChar(c) ==
    IsDigit(c) \/ LowerChar(c) \in {"c", "o", "d", "e", "t", "p", "x", "i", "m", "a", "h"}

\* [:\s]
IsSep(c) == c \in {":", " "}

DigitsAt(text, i) ==
    /\ i + CodeLen - 1 <= Len(text)
    /\ \A j \in i..(i + CodeLen - 1) : IsDigit(text[j])

\* \b before position i and \b after position j, both next to a digit
BoundaryBefore(text, i) == i = 1 \/ ~IsWordChar(text[i - 1])
BoundaryAfter(text, j) == j = Len(text) \/ ~IsWordChar(text[j + 1])

\* re.compile(r"\b\d{6}\b").findall(text), scanning from position i
RECURSIVE FindBare(_, _)
FindBare(text, i) ==
    IF i > Len(text) THEN <<>>
    ELSE IF /\ DigitsAt(text, i)
            /\ BoundaryBefore(text, i)
            /\ BoundaryAfter(text, i + CodeLen - 1)
         THEN <<SubSeq(text, i, i + CodeLen - 1)>> \o FindBare(text, i + CodeLen)
         ELSE FindBare(text, i + 1)

KeywordAt(text, i, kw) ==
    /\ i + Len(kw) - 1 <= Len(text)
    /\ \A j \in 1..Len(kw) : LowerChar(text[i + j - 1]) = kw[j]

\* first position at or after i that holds no [:\s] character
RECURSIVE SkipSeps(_, _)
SkipSeps(text, i) ==
    IF i <= Len(text) /\ IsSep(text[i]) THEN SkipSeps(text, i + 1) ELSE i

\* re.compile(kw + r"[:\s]+(\d{6})", re.I).findall(text), scanning from position i
RECURSIVE FindKeyword(_, _, _)
FindKeyword(text, i, kw) ==
    IF i > Len(text) THEN <<>>
    ELSE LET s == i + Len(kw)
             d == SkipSeps(text, s)
         IN  IF KeywordAt(text, i, kw) /\ d > s /\ DigitsAt(text, d)
             THEN <<SubSeq(text, d, d + CodeLen - 1)>>
                      \o FindKeyword(text, d + CodeLen, kw)
             ELSE FindKeyword(text, i + 1, kw)

\* the codes one message appends: every pattern of OTP_PATTERNS, in order
MessageCodes(msg) ==
    LET text == msg.body \o <<" ">> \o msg.subject
    IN  FindBare(text, 1)
            \o FindKeyword(text, 1, <<"c", "o", "d", "e">>)
            \o FindKeyword(text, 1, <<"o", "t", "p">>)

(******************************* retrieval *********************************)
\* the mail server's side: the password it accepts for every mailbox
MailPassword == <<"p", "w">>

\* what went wrong at the server during one retrieval: nothing, or an
\* exception raised by the named call (k: at the k-th message of the loop)
Faults ==
    {[at |-> a, k |-> 0] : a \in {"none", "connect", "login", "list", "logout"}}
        \cup {[at |-> "fetch", k |-> k] : k \in 1..MaxInbox}

NoFault == [at |-> "none", k |-> 0]

Max(a, b) == IF a >= b THEN a ELSE b
Min(a, b) == IF a <= b THEN a ELSE b

Reverse(s) == [i \in 1..Len(s) |-> s[Len(s) + 1 - i]]

\* Python's ids[-limit:] (ids[-0:] is ids[0:])
SliceLast(ids, limit) ==
    LET n == Len(ids)
        from == IF limit = 0 THEN 0
                ELSE IF limit > 0 THEN Max(n - limit, 0)
                ELSE Min(0 - limit, n)
    IN  SubSeq(ids, from + 1, n)

\* the ordinals (1 = oldest) in the order the IMAP loop visits them
ImapOrder(n, limit) == Reverse(SliceLast([i \in 1..n |-> i], limit))

\* the ordinals in the order the POP3 loop visits them: retr(i+1) for i in
\* range(start, num_messages)
Pop3Order(n, limit) ==
    LET start == Max(0, n - limit)
    IN  [j \in 1..Max(n - start, 0) |-> start + j]

RECURSIVE CollectCodes(_, _)
CollectCodes(box, order) ==
    IF order = <<>> THEN <<>>
    ELSE MessageCodes(box[Head(order)]) \o CollectCodes(box, Tail(order))

Range(s) == {s[i] : i \in 1..Len(s)}

\* list(set(codes))[:5]: the distinct codes in any order, cut to five
SetListCut(codes) ==
    LET S == Range(codes)
        k == Min(Cardinality(S), MaxCodes)
    IN  {s \in [1..k -> S] : \A i, j \in 1..k : i # j => s[i] # s[j]}

MailError == <<"M", "a", "i", "l", " ", "e", "r", "r", "o", "r">>

Session(opened, released, raised, inspected, codes) ==
    [opened |-> opened, released |-> released, raised |-> raised,
     inspected |-> inspected, codes |-> codes]

\* the body of the try block of either retrieval, given the visiting order
RunSession(acc, box, order, fault) ==
    IF fault.at = "connect"
    THEN Session(FALSE, FALSE, TRUE, <<>>, <<>>)
    ELSE IF fault.at = "login" \/ acc.password # MailPassword
    THEN Session(TRUE, FALSE, TRUE, <<>>, <<>>)
    ELSE IF fault.at = "list"
    THEN Session(TRUE, FALSE, TRUE, <<>>, <<>>)
    ELSE IF fault.at = "fetch" /\ fault.k <= Len(order)
    THEN Session(TRUE, FALSE, TRUE, SubSeq(order, 1, fault.k - 1),
                 CollectCodes(box, SubSeq(order, 1, fault.k - 1)))
    ELSE IF fault.at = "logout"
    THEN Session(TRUE, FALSE, TRUE, order, CollectCodes(box, order))
    ELSE Session(TRUE, TRUE, FALSE, order, CollectCodes(box, order))

fetch_signin_codes_imap(acc, box, limit, fault) ==
    RunSession(acc, box, ImapOrder(Len(box), limit), fault)

fetch_signin_codes_pop3(acc, box, limit, fault) ==
    RunSession(acc, box, Pop3Order(Len(box), limit), fault)

IsImap(acc) == Lower(acc.protocol) = <<"i", "m", "a", "p">>

fetch_signin_codes(acc, box, limit, fault) ==
    IF IsImap(acc)
    THEN fetch_signin_codes_imap(acc, box, limit, fault)
    ELSE fetch_signin_codes_pop3(acc, box, limit, fault)

\* the lists a retrieval can return
Returned(session) ==
    IF session.raised THEN {<<MailError>>} ELSE SetListCut(session.codes)

(**************************** command handlers *****************************)
\* what the last handler did: the reply it sent and, for /getcode, the calls
\* it made in order and the retrieval's session
NoSession == Session(FALSE, FALSE, FALSE, <<>>, <<>>)

\* what a writing handler found in the row it wrote: the expires_at or the
\* account row it replaced (none: <<>>), and whether the user was approved
NothingFound == [expires_at |-> <<>>, account |-> <<>>, approved |-> FALSE]

Trace(cmd, uid, text, reply, calls, codes, session) ==
    [cmd |-> cmd, uid |-> uid, text |-> text, reply |-> reply, calls |-> calls,
     codes |-> codes, session |-> session, found |-> NothingFound]

\* the row of table f under key k, as a sequence of at most one row
RowOf(f, k) == IF k \in DOMAIN f THEN <<f[k]>> ELSE <<>>

Silent(cmd, uid, text) == Trace(cmd, uid, text, "none", <<>>, <<>>, NoSession)

Reply(cmd, uid, text, reply) == Trace(cmd, uid, text, reply, <<>>, <<>>, NoSession)

cmd_add(uid, text) ==
    /\ IF ~is_admin(uid)
       THEN /\ last' = Silent("add", uid, text)
            /\ accounts' = accounts
       ELSE IF Len(text) = 6 /\ IntOk(text[6])
       THEN /\ accounts' = upsert_account(accounts,
                   Account(text[2], text[3], text[4], text[5], IntOf(text[6])))
            /\ last' = [Reply("add", uid, text, "added")
                           EXCEPT !.found.account = RowOf(accounts, text[2])]
       ELSE /\ last' = Reply("add", uid, text, "usage")
            /\ accounts' = accounts
    /\ UNCHANGED <<approved_users, user_email_access, clock, ticks,
                   max_emails_check, inbox, granted, blocked>>

cmd_approve(uid, text) ==
    /\ IF ~is_admin(uid)
       THEN /\ last' = Silent("approve", uid, text)
            /\ approved_users' = approved_users
       ELSE IF Len(text) = 2 /\ IntOk(text[2])
       THEN /\ approved_users' = approve_user(approved_users, IntOf(text[2]))
            /\ last' = [Reply("approve", uid, text, "approved")
                           EXCEPT !.found.approved = IntOf(text[2]) \in approved_users]
       ELSE /\ last' = Reply("approve", uid, text, "usage")
            /\ approved_users' = approved_users
    /\ UNCHANGED <<accounts, user_email_access, clock, ticks,
                   max_emails_check, inbox, granted, blocked>>

\* history keeping: f with key k set to v
Noted(f, k, v) == [x \in (DOMAIN f) \cup {k} |-> IF x = k THEN v ELSE f[x]]

\* a variant that reads the first three arguments and ignores further ones
cmd_grant_loose(uid, text) ==
    /\ IF ~is_admin(uid)
       THEN /\ last' = Silent("grant", uid, text)
            /\ UNCHANGED <<user_email_access, granted>>
       ELSE IF Len(text) >= 4 /\ IntOk(text[2]) /\ IntOk(text[4])
       THEN /\ user_email_access' =
                   grant_email_access(user_email_access, clock,
                                      IntOf(text[2]), text[3], IntOf(text[4]))
            /\ granted' = Noted(granted, <<IntOf(text[2]), text[3]>>,
                                [at |-> clock, days |-> IntOf(text[4])])
            /\ last' = [Reply("grant", uid, text, "granted")
                           EXCEPT !.found.expires_at =
                               RowOf(user_email_access, <<IntOf(text[2]), text[3]>>)]
       ELSE /\ last' = Reply("grant", uid, text, "usage")
            /\ UNCHANGED <<user_email_access, granted>>
    /\ UNCHANGED <<accounts, approved_users, clock, ticks,
                   max_emails_check, inbox, blocked>>

\* a variant that writes a grant only for a user who is approved already
cmd_grant_approved_only(uid, text) ==
    /\ IF ~is_admin(uid)
       THEN /\ last' = Silent("grant", uid, text)
            /\ UNCHANGED <<user_email_access, granted>>
       ELSE IF /\ Len(text) = 4 /\ IntOk(text[2]) /\ IntOk(text[4])
               /\ is_approved(approved_users, IntOf(text[2]))
       THEN /\ user_email_access' =
                   grant_email_access(user_email_access, clock,
                                      IntOf(text[2]), text[3], IntOf(text[4]))
            /\ granted' = Noted(granted, <<IntOf(text[2]), text[3]>>,
                                [at |-> clock, days |-> IntOf(text[4])])
            /\ last' = [Reply("grant", uid, text, "granted")
                           EXCEPT !.found.expires_at =
                               RowOf(user_email_access, <<IntOf(text[2]), text[3]>>)]
       ELSE /\ last' = Reply("grant", uid, text, "usage")
            /\ UNCHANGED <<user_email_access, granted>>
    /\ UNCHANGED <<accounts, approved_users, clock, ticks,
                   max_emails_check, inbox, blocked>>

cmd_grant(uid, text) ==
    /\ IF ~is_admin(uid)
       THEN /\ last' = Silent("grant", uid, text)
            /\ UNCHANGED <<user_email_access, granted>>
       ELSE IF Len(text) = 4 /\ IntOk(text[2]) /\ IntOk(text[4])
       THEN /\ user_email_access' =
                   grant_email_access(user_email_access, clock,
                                      IntOf(text[2]), text[3], IntOf(text[4]))
            /\ granted' = Noted(granted, <<IntOf(text[2]), text[3]>>,
                                [at |-> clock, days |-> IntOf(text[4])])
            /\ last' = [Reply("grant", uid, text, "granted")
                           EXCEPT !.found.expires_at =
                               RowOf(user_email_access, <<IntOf(text[2]), text[3]>>)]
       ELSE /\ last' = Reply("grant", uid, text, "usage")
            /\ UNCHANGED <<user_email_access, granted>>
    /\ UNCHANGED <<accounts, approved_users, clock, ticks,
                   max_emails_check, inbox, blocked>>

\* the mailbox the server holds for an address (empty when it has none)
BoxOf(email_addr) ==
    IF email_addr \in DOMAIN inbox THEN inbox[email_addr] ELSE <<>>

\* the traces cmd_getcode can leave, for one fault of the server
GetCodeTraces(uid, text, fault) ==
    IF ~is_approved(approved_users, uid)
    THEN {Trace("getcode", uid, text, "not_approved", <<"is_approved">>,
                <<>>, NoSession)}
    ELSE IF Len(text) # 2
    THEN {Trace("getcode", uid, text, "usage", <<"is_approved">>, <<>>, NoSession)}
    ELSE IF ~check_email_access(user_email_access, clock, uid, text[2])
    THEN {Trace("getcode", uid, text, "not_allowed",
                <<"is_approved", "check_email_access">>, <<>>, NoSession)}
    ELSE IF get_account(accounts, text[2]) = NoAccount
    THEN {Trace("getcode", uid, text, "not_found",
                <<"is_approved", "check_email_access", "get_account">>,
                <<>>, NoSession)}
    ELSE LET acc == get_account(accounts, text[2])
             session == fetch_signin_codes(acc, BoxOf(acc.email),
                                           max_emails_check, fault)
         IN  {Trace("getcode", uid, text,
                    IF codes = <<>> THEN "no_otp" ELSE "codes",
                    <<"is_approved", "check_email_access", "get_account",
                      "fetch_signin_codes">>,
                    codes, session) : codes \in Returned(session)}

\* a variant that sweeps expired grant rows while it reads them
cmd_getcode_sweep(uid, text, fault) ==
    /\ last' \in GetCodeTraces(uid, text, fault)
    /\ user_email_access' =
           [k \in {x \in DOMAIN user_email_access : user_email_access[x] > clock}
               |-> user_email_access[k]]
    /\ UNCHANGED <<accounts, approved_users, clock, ticks,
                   max_emails_check, inbox, granted, blocked>>

cmd_getcode(uid, text, fault) ==
    /\ last' \in GetCodeTraces(uid, text, fault)
    /\ UNCHANGED <<accounts, approved_users, user_email_access, clock, ticks,
                   max_emails_check, inbox, granted, blocked>>

\* the mail calls of a retrieval that wait for the server: the constructor
\* (connect and greeting), login, select / search / list, fetch / retr
HangSteps == {"connect", "login", "list", "fetch"}

\* the order in which the retrieval of acc visits its mailbox
VisitOrder(acc) ==
    IF IsImap(acc)
    THEN ImapOrder(Len(BoxOf(acc.email)), max_emails_check)
    ELSE Pop3Order(Len(BoxOf(acc.email)), max_emails_check)

\* cmd_getcode when the server stops responding in the call `at`: no mail
\* call is given a timeout and no default socket timeout is set, so the
\* call does not return; the handler has sent "Checking inbox..." and
\* waits, and nothing takes the request out of blocked again
cmd_getcode_hang(uid, text, at) ==
    /\ is_approved(approved_users, uid)
    /\ Len(text) = 2
    /\ check_email_access(user_email_access, clock, uid, text[2])
    /\ get_account(accounts, text[2]) # NoAccount
    /\ at \in {"list", "fetch"}
          => get_account(accounts, text[2]).password = MailPassword
    /\ at = "fetch" => VisitOrder(get_account(accounts, text[2])) # <<>>
    /\ blocked' = blocked \cup {[uid |-> uid, text |-> text]}
    /\ last' = Trace("getcode", uid, text, "checking",
                     <<"is_approved", "check_email_access", "get_account",
                       "fetch_signin_codes">>,
                     <<>>, Session(at # "connect", FALSE, FALSE, <<>>, <<>>))
    /\ UNCHANGED <<accounts, approved_users, user_email_access, clock, ticks,
                   max_emails_check, inbox, granted>>

(****************************** environment ********************************)
\* time passes
Tick(delta) ==
    /\ ticks < MaxTicks
    /\ clock' = clock + delta
    /\ ticks' = ticks + 1
    /\ last' = Silent("tick", 0, <<>>)
    /\ UNCHANGED <<accounts, approved_users, user_email_access,
                   max_emails_check, inbox, granted, blocked>>

\* a message arrives in a mailbox
Deliver(email_addr, msg) ==
    /\ Len(inbox[email_addr]) < MaxInbox
    /\ inbox' = [inbox EXCEPT ![email_addr] = Append(@, msg)]
    /\ last' = Silent("deliver", 0, <<>>)
    /\ UNCHANGED <<accounts, approved_users, user_email_access, clock, ticks,
                   max_emails_check, granted, blocked>>

(******************************** inputs ***********************************)
EmailA == <<"a">>
EmailB == <<"b">>
Emails == {EmailA, EmailB}

Host == <<"h">>
BadPassword == <<"n", "o">>

Imap == <<"i", "m", "a", "p">>
ImapUpper == <<"I", "M", "A", "P">>
Pop3 == <<"p", "o", "p", "3">>
Smtp == <<"s", "m", "t", "p">>

NotANumber == <<"x">>
Port993 == <<"9", "9", "3">>

AddCmd == <<"/", "a", "d", "d">>
ApproveCmd == <<"/", "a", "p", "p", "r", "o", "v", "e">>
GrantCmd == <<"/", "g", "r", "a", "n", "t">>
GetCodeCmd == <<"/", "g", "e", "t", "c", "o", "d", "e">>

Days1 == <<"1">>
Days2 == <<"2">>
Days0 == <<"0">>
DaysMinus1 == <<"-", "1">>
Uid1 == <<"1">>
Uid2 == <<"2">>

\* clock advances: a second, a day less a second, a day
Deltas == {1, DAY - 1, DAY}

\* ---- the ledger specification: well-formed admin commands, /getcode by
\* ---- every user, and the clock
LedgerAddTexts == {<<AddCmd, EmailA, MailPassword, Imap, Host, Port993>>}

LedgerApproveTexts == {<<ApproveCmd, Uid2>>}

LedgerGrantTexts ==
    {<<GrantCmd, Uid2, EmailA, d>> : d \in {Days1, Days2, Days0, DaysMinus1}}
        \cup {<<GrantCmd, Uid2, EmailB, Days1>>}

LedgerGetCodeTexts == {<<GetCodeCmd, e>> : e \in Emails} \cup {<<GetCodeCmd>>}

\* the server answers, or refuses the login
LedgerFaults == {NoFault, [at |-> "login", k |-> 0]}

\* ---- the command specification: every shape of admin command, sent by
\* ---- every user, at a fixed time
AdminAddTexts ==
    {<<AddCmd, EmailA, MailPassword, Imap, Host, port>> :
        port \in {Port993, <<"0">>, <<"-", "1">>, NotANumber}}
    \cup {<<AddCmd, EmailA, BadPassword, Smtp, Host, Port993>>,
          <<AddCmd, EmailB, BadPassword, Pop3, Host, Port993>>,
          <<AddCmd>>,
          <<AddCmd, EmailA, MailPassword, Imap, Host>>,
          <<AddCmd, EmailA, MailPassword, Imap, Host, Port993, Port993>>}

AdminApproveTexts ==
    {<<ApproveCmd, u>> : u \in {Uid1, Uid2, NotANumber}}
    \cup {<<ApproveCmd>>, <<ApproveCmd, Uid2, Uid2>>}

AdminGrantTexts ==
    {<<GrantCmd, Uid2, EmailA, d>> : d \in {Days1, Days0, DaysMinus1, NotANumber}}
    \cup {<<GrantCmd, Uid1, EmailA, d>> : d \in {Days1, Days0}}
    \cup {<<GrantCmd, NotANumber, EmailA, Days1>>,
          <<GrantCmd, Uid2, EmailB, Days2>>,
          <<GrantCmd>>,
          <<GrantCmd, Uid2, EmailA>>,
          <<GrantCmd, Uid2, EmailA, Days1, Days1>>}

\* ---- the retrieval specification: accounts for mailbox a under either
\* ---- protocol, arriving messages, /getcode by the admin
MailAddTexts ==
    {<<AddCmd, EmailA, MailPassword, proto, Host, Port993>> :
        proto \in {Imap, ImapUpper, Pop3}}
    \cup {<<AddCmd, EmailA, BadPassword, Imap, Host, Port993>>}

Message(subject, body) == [subject |-> subject, body |-> body]

\* no code; "code: 123456"; subject "otp 654321"; "code 9876543"
Messages ==
    {Message(<<"h", "i">>, <<"x">>),
     Message(<<>>, <<"c", "o", "d", "e", ":", " ", "1", "2", "3", "4", "5", "6">>),
     Message(<<"o", "t", "p", " ", "6", "5", "4", "3", "2", "1">>, <<>>),
     Message(<<>>, <<"c", "o", "d", "e", " ", "9", "8", "7", "6", "5", "4", "3">>)}

(***************************** specifications ******************************)
EmptyStores ==
    /\ accounts = [e \in {} |-> NoAccount]
    /\ approved_users = {}
    /\ user_email_access = [k \in {} |-> 0]
    /\ clock = 0
    /\ ticks = 0
    /\ inbox = [e \in Emails |-> <<>>]
    /\ last = Silent("init", 0, <<>>)
    /\ granted = [k \in {} |-> [at |-> 0, days |-> 0]]
    /\ blocked = {}

\* the state after init_db() on a fresh database file
Init ==
    /\ EmptyStores
    /\ max_emails_check = DefaultMaxEmailsCheck

Next ==
    \/ \E text \in LedgerAddTexts : cmd_add(ADMIN_ID, text)
    \/ \E text \in LedgerApproveTexts : cmd_approve(ADMIN_ID, text)
    \/ \E text \in LedgerGrantTexts : cmd_grant(ADMIN_ID, text)
    \/ \E uid \in Users, text \in LedgerGetCodeTexts, fault \in LedgerFaults :
           cmd_getcode(uid, text, fault)
    \/ \E delta \in Deltas : Tick(delta)

Spec == Init /\ [][Next]_vars

NextAdmin ==
    \/ \E uid \in Users, text \in AdminAddTexts : cmd_add(uid, text)
    \/ \E uid \in Users, text \in AdminApproveTexts : cmd_approve(uid, text)
    \/ \E uid \in Users, text \in AdminGrantTexts : cmd_grant(uid, text)
    \/ \E uid \in Users, text \in LedgerGetCodeTexts :
           cmd_getcode(uid, text, NoFault)

SpecAdmin == Init /\ [][NextAdmin]_vars

\* as Init, for every configured MAX_EMAILS_CHECK up to MaxLimit
InitMail ==
    /\ EmptyStores
    /\ max_emails_check \in 0..MaxLimit

NextMail ==
    \/ \E text \in MailAddTexts : cmd_add(ADMIN_ID, text)
    \/ \E msg \in Messages : Deliver(EmailA, msg)
    \/ \E fault \in Faults : cmd_getcode(ADMIN_ID, <<GetCodeCmd, EmailA>>, fault)

SpecMail == InitMail /\ [][NextMail]_vars

\* the retrieval specification with a server that can stop responding;
\* every handler that can take a step eventually takes it
NextHang ==
    \/ NextMail
    \/ \E at \in HangSteps : cmd_getcode_hang(ADMIN_ID, <<GetCodeCmd, EmailA>>, at)

SpecHang == InitMail /\ [][NextHang]_vars /\ WF_vars(NextHang)

(******************************** claims ***********************************)
NonAdmins == Users \ {ADMIN_ID}

\* a row of user_email_access for (r, m) that has not expired
UnexpiredGrant(r, m) ==
    /\ <<r, m>> \in DOMAIN user_email_access
    /\ user_email_access[<<r, m>>] > clock

Called(name) == \E i \in 1..Len(last.calls) : last.calls[i] = name

Authorized(r, m) ==
    r = ADMIN_ID \/ (r \in approved_users /\ UnexpiredGrant(r, m))

\* C2: /getcode reaches the retrieval only if the requester is the admin or
\* is approved and holds an unexpired grant for exactly that mailbox, and the
\* mailbox has an account row; get_account is called only after the access
\* check passed; a failed access check is answered as unauthorized.
C2_FetchOnlyWhenAuthorized ==
    last.cmd = "getcode" =>
        /\ (Called("fetch_signin_codes") \/ last.session.opened
              \/ last.reply \in {"codes", "no_otp"})
              => /\ Len(last.text) = 2
                 /\ Authorized(last.uid, last.text[2])
                 /\ last.text[2] \in DOMAIN accounts
        /\ Called("get_account")
              => Len(last.text) = 2 /\ Authorized(last.uid, last.text[2])
        /\ (Len(last.text) = 2 /\ ~Authorized(last.uid, last.text[2]))
              => /\ last.reply \in {"not_approved", "not_allowed"}
                 /\ ~Called("get_account")
                 /\ ~last.session.opened

\* C2 witness: an approved non-admin with an unexpired grant reaches the
\* mail server.
C2_Witness ==
    /\ last.cmd = "getcode"
    /\ last.uid \in NonAdmins
    /\ Called("fetch_signin_codes")
    /\ last.session.opened

\* C3: for an approved non-admin requester whose pair was last granted at
\* time t0 for d >= 1 days, check_email_access is true exactly while
\* now < t0 + d * 86400; at now = expires_at the grant counts as expired.
C3_AccessExactlyUntilExpiry ==
    \A r \in NonAdmins, m \in Emails :
        (r \in approved_users /\ <<r, m>> \in DOMAIN granted
            /\ granted[<<r, m>>].days >= 1)
        => (check_email_access(user_email_access, clock, r, m)
                <=> clock < granted[<<r, m>>].at + granted[<<r, m>>].days * 86400)

\* C3 witness: the clock stands exactly at t0 + d * 86400 of a two-day grant
\* of an approved requester, and access is refused.
C3_Witness ==
    \E r \in NonAdmins, m \in Emails :
        /\ r \in approved_users
        /\ <<r, m>> \in DOMAIN granted
        /\ granted[<<r, m>>].days = 2
        /\ clock = granted[<<r, m>>].at + 2 * 86400
        /\ ~check_email_access(user_email_access, clock, r, m)

\* C4: the admin passes is_approved and check_email_access for every
\* mailbox in every state, and a /getcode of the admin is never refused as
\* unapproved or not allowed.
C4_AdminBypass ==
    /\ is_approved(approved_users, ADMIN_ID)
    /\ \A m \in Emails : check_email_access(user_email_access, clock, ADMIN_ID, m)
    /\ (last.cmd = "getcode" /\ last.uid = ADMIN_ID)
          => last.reply \notin {"not_approved", "not_allowed"}

\* C4 witness: the admin has no approval row and an expired grant row for a
\* mailbox, and its /getcode for that mailbox reaches the retrieval.
C4_Witness ==
    /\ ADMIN_ID \notin approved_users
    /\ last.cmd = "getcode"
    /\ last.uid = ADMIN_ID
    /\ Len(last.text) = 2
    /\ <<ADMIN_ID, last.text[2]>> \in DOMAIN user_email_access
    /\ user_email_access[<<ADMIN_ID, last.text[2]>>] <= clock
    /\ Called("fetch_signin_codes")

\* the mailbox the last /getcode asked for, as the server holds it
LastBox == BoxOf(last.text[2])

Retrieved == last.cmd = "getcode" /\ Called("fetch_signin_codes")

\* C5: every session a retrieval opened is released (logout / quit) before
\* the retrieval returns, on every exit path.
C5_SessionReleased ==
    (Retrieved /\ last.session.opened) => last.session.released

\* C6: a retrieval that failed to connect or authenticate is answered with
\* an error outcome, never with the outcome that carries codes nor with the
\* no-code outcome.
C6_FailureIsErrorOutcome ==
    (Retrieved /\ last.session.raised) => last.reply \notin {"codes", "no_otp"}

\* inspected messages that hold a code
WithCode == {i \in Range(last.session.inspected) : MessageCodes(LastBox[i]) # <<>>}

NewestWithCode == CHOOSE i \in WithCode : \A j \in WithCode : j <= i

\* C7: when an inspected message yields a code, /getcode answers with
\* exactly one code, a code of the newest inspected message that holds one.
C7_OneNewestCode ==
    (Retrieved /\ ~last.session.raised /\ WithCode # {})
        => /\ last.reply = "codes"
           /\ Len(last.codes) = 1
           /\ last.codes[1] \in Range(MessageCodes(LastBox[NewestWithCode]))

\* C8: a retrieval inspects exactly the min(n, L) newest messages of the
\* mailbox, newest first, under either protocol.
C8_NewestFirstAtMostLimit ==
    (Retrieved /\ ~last.session.raised)
        => last.session.inspected =
               [j \in 1..Min(Len(LastBox), max_emails_check) |-> Len(LastBox) + 1 - j]

\* C9: every stored account row has port > 0 and protocol IMAP or POP3.
C9_StoredAccountsValid ==
    \A e \in DOMAIN accounts :
        /\ accounts[e].port > 0
        /\ Lower(accounts[e].protocol) \in {Imap, Pop3}

\* a message whose shape the command does not accept: a wrong number of
\* arguments or a non-integer token where an integer is read
MalformedAdd(text) == Len(text) # 6 \/ text[6] = NotANumber
MalformedApprove(text) == Len(text) # 2 \/ text[2] = NotANumber
MalformedGrant(text) ==
    Len(text) # 4 \/ text[2] = NotANumber \/ text[4] = NotANumber

MalformedLast(l) ==
    \/ l.cmd = "add" /\ MalformedAdd(l.text)
    \/ l.cmd = "approve" /\ MalformedApprove(l.text)
    \/ l.cmd = "grant" /\ MalformedGrant(l.text)

\* C10: a malformed /add, /approve or /grant leaves accounts, approvals and
\* grants unchanged, and the admin who sent it gets the usage reply.
C10_MalformedChangesNothing ==
    [][MalformedLast(last')
         => /\ stores' = stores
            /\ (last'.uid = ADMIN_ID => last'.reply = "usage")]_vars

\* C10 witness: the admin's /grant with a surplus argument was answered with
\* the usage reply while grants exist.
C10_Witness ==
    /\ last.cmd = "grant"
    /\ last.uid = ADMIN_ID
    /\ Len(last.text) = 5
    /\ last.reply = "usage"
    /\ DOMAIN user_email_access # {}
    /\ DOMAIN accounts # {}

\* C11: an /add, /approve or /grant sent by anyone but the admin changes
\* none of accounts, approvals and grants (and is not answered).
C11_NonAdminChangesNothing ==
    [][(last'.cmd \in {"add", "approve", "grant"} /\ last'.uid # ADMIN_ID)
         => (stores' = stores /\ last'.reply = "none")]_vars

\* C11 witness: a well-formed /grant of a non-admin sender left no row.
C11_Witness ==
    /\ last.cmd = "grant"
    /\ last.uid \in NonAdmins
    /\ last.text = <<GrantCmd, Uid2, EmailB, Days2>>
    /\ <<2, EmailB>> \notin DOMAIN user_email_access
    /\ last.reply = "none"

\* C12: a /getcode, whatever its outcome, leaves accounts, approvals and
\* grants as they were; an expired grant row is neither deleted nor renewed.
C12_GetCodeChangesNothing ==
    [][last'.cmd = "getcode" => stores' = stores]_vars

\* C12 witness: a /getcode was refused on an expired grant row, and the row
\* is still stored with the same expires_at.
C12_Witness ==
    /\ last.cmd = "getcode"
    /\ last.reply = "not_allowed"
    /\ <<last.uid, last.text[2]>> \in DOMAIN user_email_access
    /\ <<last.uid, last.text[2]>> \in DOMAIN granted
    /\ granted[<<last.uid, last.text[2]>>].days >= 1
    /\ user_email_access[<<last.uid, last.text[2]>>]
           = granted[<<last.uid, last.text[2]>>].at
               + granted[<<last.uid, last.text[2]>>].days * 86400
    /\ user_email_access[<<last.uid, last.text[2]>>] <= clock

Requests == {[uid |-> u, text |-> t] : u \in Users, t \in LedgerGetCodeTexts}

\* C13: every /getcode eventually gets its final outcome, also when the
\* mail server stops responding: a request that waits in a mail call
\* does not wait forever.
C13_EveryGetCodeAnswered ==
    \A r \in Requests : (r \in blocked) ~> (r \notin blocked)

(* C14: a grant that is carried out leaves exactly one row for its pair, whose
   expires_at is the time of this grant plus its days (whatever the row held
   before: a shorter grant shortens, a longer one extends, durations never
   add up), so that access to the pair is decided by this grant alone; the
   rows of all other pairs are unchanged. *)
GrantKey(l) == <<IntOf(l.text[2]), l.text[3]>>

GrantDone(l) == l.cmd = "grant" /\ l.reply = "granted"

C14_RegrantOverwrites ==
    [][GrantDone(last') =>
          LET k == GrantKey(last')
              e == clock + IntOf(last'.text[4]) * DAY
          IN  /\ DOMAIN user_email_access' = DOMAIN user_email_access \cup {k}
              /\ user_email_access'[k] = e
              /\ \A j \in DOMAIN user_email_access \ {k} :
                     user_email_access'[j] = user_email_access[j]
              /\ \A t \in {clock, e - 1, e, e + 1} :
                     check_email_access(user_email_access', t, 2, k[2]) <=>
                         (k[1] = 2 => t < e)
                             /\ (k[1] # 2 => check_email_access(user_email_access,
                                                                t, 2, k[2]))]_vars

\* a 1-day grant has replaced an unexpired 2-day grant of the same pair, made
\* at the same time, while another pair holds a row
C14_Witness ==
    /\ GrantDone(last)
    /\ last.text[4] = Days1
    /\ last.found.expires_at = <<clock + 2 * DAY>>
    /\ user_email_access[GrantKey(last)] = clock + DAY
    /\ \E j \in DOMAIN user_email_access : j # GrantKey(last)

(* C15: after an /add that is carried out, get_account of its address returns
   exactly the password, protocol, server and port of this /add, whatever row
   the address had before; storing the same account once more changes
   nothing; the rows of all other addresses are unchanged. *)
AddDone(l) == l.cmd = "add" /\ l.reply = "added"

AddedAccount(l) ==
    Account(l.text[2], l.text[3], l.text[4], l.text[5], IntOf(l.text[6]))

C15_UpsertLastWriteWins ==
    [][AddDone(last') =>
          LET acc == AddedAccount(last')
          IN  /\ get_account(accounts', acc.email) = acc
              /\ upsert_account(accounts', acc) = accounts'
              /\ DOMAIN accounts' = DOMAIN accounts \cup {acc.email}
              /\ \A e \in DOMAIN accounts \ {acc.email} :
                     accounts'[e] = accounts[e]]_vars

\* an /add has replaced a row that differed in password and protocol, while
\* another address has a row
C15_Witness ==
    /\ AddDone(last)
    /\ last.found.account # <<>>
    /\ last.found.account[1].password # last.text[3]
    /\ last.found.account[1].protocol # last.text[4]
    /\ get_account(accounts, last.text[2]) = AddedAccount(last)
    /\ \E e \in DOMAIN accounts : e # last.text[2]

(* C16: every code extracted from an inspected message is a maximal digit run
   of exactly CodeLen digits of that message's text (not a prefix or a
   fragment of a longer run), whichever pattern found it. *)
TextOf(msg) == msg.body \o <<" ">> \o msg.subject

MaximalRunAt(text, i) ==
    /\ DigitsAt(text, i)
    /\ i = 1 \/ ~IsDigit(text[i - 1])
    /\ i + CodeLen - 1 = Len(text) \/ ~IsDigit(text[i + CodeLen])

IsMaximalRun(text, code) ==
    \E i \in 1..Len(text) :
        MaximalRunAt(text, i) /\ SubSeq(text, i, i + CodeLen - 1) = code

C16_CodesAreMaximalRuns ==
    (Retrieved /\ ~last.session.raised)
        => \A i \in Range(last.session.inspected) :
               \A code \in Range(MessageCodes(LastBox[i])) :
                   /\ code \in Range(last.session.codes)
                   /\ IsMaximalRun(TextOf(LastBox[i]), code)

(* C17: /approve and /grant act on separate tables and neither reads the
   other's, so they commute: a well-formed /grant by the admin writes its row
   whether or not the user is approved and whether or not the mailbox has an
   account, and changes no approval; an /approve adds the user and changes no
   grant, so that every unexpired grant the user already held gives access
   from that moment; and /getcode by a non-admin passes the access checks
   exactly when the stores hold the approval and an unexpired grant, however
   they came to hold them. *)
ApproveDone(l) == l.cmd = "approve" /\ l.reply = "approved"

C17_ApproveGrantCommute ==
    [][/\ (last'.cmd = "grant" /\ last'.uid = ADMIN_ID
              /\ ~MalformedGrant(last'.text))
          => /\ GrantDone(last')
             /\ user_email_access'[GrantKey(last')] =
                    clock + IntOf(last'.text[4]) * DAY
             /\ approved_users' = approved_users
             /\ accounts' = accounts
       /\ ApproveDone(last')
          => LET r == IntOf(last'.text[2])
             IN  /\ approved_users' = approved_users \cup {r}
                 /\ user_email_access' = user_email_access
                 /\ accounts' = accounts
                 /\ \A m \in Emails :
                        UnexpiredGrant(r, m)
                            => /\ is_approved(approved_users', r)
                               /\ check_email_access(user_email_access', clock',
                                                      r, m)
       /\ (last'.cmd = "getcode" /\ last'.uid \in NonAdmins
              /\ Len(last'.text) = 2)
          => (last'.reply \notin {"not_approved", "not_allowed"}
                 <=> Authorized(last'.uid, last'.text[2]))]_vars

\* user 2 has just been approved for the first time, some time after a grant
\* for mailbox b was written; b has no account; the grant gives access now
C17_Witness ==
    /\ ApproveDone(last)
    /\ ~last.found.approved
    /\ clock > 0
    /\ <<2, EmailB>> \in DOMAIN granted
    /\ granted[<<2, EmailB>>].at = 0
    /\ EmailB \notin DOMAIN accounts
    /\ Authorized(2, EmailB)
    /\ check_email_access(user_email_access, clock, 2, EmailB)

(* C18: no step removes an approval row or a grant row, so an approved user
   stays approved; and access of a non-admin to a mailbox ends in a step only
   because the clock reached the row's expires_at with the row untouched, or
   because a /grant for that pair wrote an earlier expires_at. *)
C18_RowsOnlyGrow ==
    [][/\ approved_users \subseteq approved_users'
       /\ DOMAIN user_email_access \subseteq DOMAIN user_email_access'
       /\ \A r \in NonAdmins, m \in Emails :
              (/\ check_email_access(user_email_access, clock, r, m)
               /\ ~check_email_access(user_email_access', clock', r, m))
                  => \/ /\ clock' > clock
                        /\ user_email_access' = user_email_access
                        /\ clock' >= user_email_access[<<r, m>>]
                     \/ /\ clock' = clock
                        /\ GrantDone(last')
                        /\ GrantKey(last') = <<r, m>>
                        /\ user_email_access'[<<r, m>>]
                               < user_email_access[<<r, m>>]]_vars

\* the clock has just reached the expires_at of a grant of the approved user
\* 2: the row is still there and gives no access any more
C18_Witness ==
    /\ last.cmd = "tick"
    /\ 2 \in approved_users
    /\ <<2, EmailA>> \in DOMAIN user_email_access
    /\ user_email_access[<<2, EmailA>>] = clock
    /\ ~check_email_access(user_email_access, clock, 2, EmailA)

(* C19: a /grant by the admin whose days are zero or negative is carried out
   like any other; and as long as the last grant of a pair is such a grant,
   the pair's row holds an expires_at that is the time of that grant plus its
   days, not later than that time, and a non-admin user of the pair has no
   access, whatever the row held before. *)
C19_NonPositiveGrantRevokes ==
    /\ (last.cmd = "grant" /\ last.uid = ADMIN_ID /\ ~MalformedGrant(last.text)
           /\ IntOf(last.text[4]) <= 0)
          => GrantDone(last)
    /\ \A k \in DOMAIN granted :
           granted[k].days <= 0
               => /\ k \in DOMAIN user_email_access
                  /\ user_email_access[k] = granted[k].at + granted[k].days * DAY
                  /\ user_email_access[k] <= granted[k].at
                  /\ k[1] \in NonAdmins
                         => ~check_email_access(user_email_access, clock,
                                                k[1], k[2])

\* a grant of -1 days has just replaced a row of the approved user 2 that had
\* not expired
C19_Witness ==
    /\ GrantDone(last)
    /\ last.text[4] = DaysMinus1
    /\ last.found.expires_at # <<>>
    /\ last.found.expires_at[1] > clock
    /\ clock > 0
    /\ GrantKey(last)[1] \in approved_users
    /\ user_email_access[GrantKey(last)] = clock - DAY
    /\ ~check_email_access(user_email_access, clock, 2, last.text[3])

====
